---------------------------- MODULE Spec2Model ----------------------------
(***************************************************************************)
(* Model of the KYC verification front end: the KYCApp workflow            *)
(* controller, the FileUpload staging component it renders, the health     *)
(* probe and the projection of the verify response into the view model.    *)
(*                                                                         *)
(* JavaScript values are tagged records [t |-> type, v |-> payload].  A    *)
(* JavaScript string is the sequence of the chunks it was concatenated     *)
(* from, so that template literals are modelled by \o and "the message     *)
(* contains the status code" is a statement about a subsequence.  An       *)
(* object is a record of its members; a key it does not carry, or carries  *)
(* with the value Undefined, reads as Undefined, as it does in JavaScript. *)
(***************************************************************************)
EXTENDS Integers, Sequences, FiniteSets, TLC

VARIABLES
    files,          \* KYCApp state: { idCard, selfie }
    verification,   \* KYCApp state: { step, isLoading, result, error }
    apiHealth,      \* KYCApp state: { status, lastChecked, data | error }
    idCardFile,     \* FileUpload state: null | { file, preview }
    selfieFile,     \* FileUpload state: null | { file, preview }
    liveUrls,       \* object URLs created and not yet revoked
    nextUrl,        \* number of object URLs created so far
    verifyCall,     \* handleVerifyKYC: position, request sent, response handled
    healthIssued,   \* number of checkApiHealth calls started so far
    healthPending,  \* checkApiHealth calls awaiting their response
    alertMsg,       \* message of the alert() raised by the last handler
    component,      \* the FileUpload that KYCApp renders: "inline" | "dropzone"
    inFlight,       \* the verify requests that await their response
    revokeCount     \* per object URL, the revokeObjectURL calls made on it

vars == <<files, verification, apiHealth, idCardFile, selfieFile, liveUrls,
          nextUrl, verifyCall, healthIssued, healthPending, alertMsg,
          component, inFlight, revokeCount>>

---------------------------------------------------------------------------
(* Bounds of the model *)

MaxUrls == 3        \* object URLs that may be created in one behaviour
MaxProbes == 2      \* health probes that may be issued in one behaviour

---------------------------------------------------------------------------
(* JavaScript values *)

Undefined == [t |-> "undefined"]
Null == [t |-> "null"]
Bool(b) == [t |-> "boolean", v |-> b]
Num(n) == [t |-> "number", v |-> n]
Str(chunks) == [t |-> "string", v |-> chunks]
S(s) == Str(<<s>>)
EmptyStr == Str(<< >>)
Arr(elems) == [t |-> "array", v |-> elems]
Obj(fields) == [t |-> "object", v |-> fields]
EmptyObj == Obj(<< >>)

\* ToBoolean: undefined, null, false, 0 and "" are falsy
Truthy(x) ==
    CASE x.t = "undefined" -> FALSE
      [] x.t = "null" -> FALSE
      [] x.t = "boolean" -> x.v
      [] x.t = "number" -> x.v # 0
      [] x.t = "string" -> Len(x.v) > 0
      [] OTHER -> TRUE

Nullish(x) == x.t \in {"undefined", "null"}

\* a || b
Or(a, b) == IF Truthy(a) THEN a ELSE b

\* a ?? b
Coalesce(a, b) == IF Nullish(a) THEN b ELSE a

\* o.k : a TypeError when o is null or undefined, undefined when o is a
\* primitive or does not carry k
Throws(o) == Nullish(o)
Get(o, k) == IF o.t = "object" /\ k \in DOMAIN o.v THEN o.v[k] ELSE Undefined

\* o?.k
OptGet(o, k) == IF Nullish(o) THEN Undefined ELSE Get(o, k)

Digit(d) ==
    CASE d = 0 -> "0" [] d = 1 -> "1" [] d = 2 -> "2" [] d = 3 -> "3"
      [] d = 4 -> "4" [] d = 5 -> "5" [] d = 6 -> "6" [] d = 7 -> "7"
      [] d = 8 -> "8" [] d = 9 -> "9"

\* String(n), as a template literal interpolates it: the decimal digits of
\* a non-negative integer
RECURSIVE NumberToString(_)
NumberToString(n) ==
    IF n < 10 THEN <<Digit(n)>>
    ELSE NumberToString(n \div 10) \o <<Digit(n % 10)>>

---------------------------------------------------------------------------
(* Candidate files the user can pick *)

File(name, size, type) ==
    [t |-> "file", name |-> name, size |-> size, type |-> type]

MiB == 1024 * 1024

CandidateFiles ==
    { File("id.jpg", 5 * MiB, "image/jpeg"),
      File("me.png", 2 * MiB, "image/png"),
      File("edge.webp", 10 * MiB, "image/webp"),
      File("big.jpg", 10 * MiB + 1, "image/jpeg"),
      File("anim.gif", 1 * MiB, "image/gif"),
      File("scan.pdf", 11 * MiB, "application/pdf") }

SizeMessage == S("File size must be less than 10MB")
TypeMessage == S("Please upload a valid image file (JPEG, PNG, WebP)")

maxSize == 10 * 1024 * 1024

allowedTypes == {"image/jpeg", "image/jpg", "image/png", "image/webp"}

\* validateFile testing the type by its "image/" family only
validateFile_AnyImage(file) ==
    IF file.size > maxSize THEN SizeMessage
    ELSE IF file.type \notin allowedTypes \cup {"image/gif"} THEN TypeMessage
    ELSE Null

validateFile(file) ==
    IF file.size > maxSize THEN SizeMessage
    ELSE IF file.type \notin allowedTypes THEN TypeMessage
    ELSE Null

---------------------------------------------------------------------------
(* What KYCApp renders *)

IdleVerification ==
    [step |-> 1, isLoading |-> FALSE, result |-> Null, error |-> Null]

\* FileUpload is rendered in the branch taken when verification.result is
\* falsy; the result card and "Verify Another Identity" in the other one
FileUploadMounted == ~Truthy(verification.result)
StartOverShown == Truthy(verification.result)

\* a FileUpload whose controls lack disabled={isLoading}
InputsEnabled_WhileLoading == FileUploadMounted

\* every control of FileUpload carries disabled={isLoading}
InputsEnabled == FileUploadMounted /\ ~verification.isLoading

\* canProceed without its test of isLoading
canProceed_WhileLoading == Truthy(files.idCard) /\ Truthy(files.selfie)

\* canProceed satisfied by either file
canProceed_Either ==
    /\ Truthy(files.idCard) \/ Truthy(files.selfie)
    /\ ~verification.isLoading

canProceed ==
    Truthy(files.idCard) /\ Truthy(files.selfie) /\ ~verification.isLoading

SubmitRendered ==
    /\ ~Truthy(verification.result)
    /\ Truthy(files.idCard) \/ Truthy(files.selfie)

\* the Start Verification button is on screen and not disabled
SubmitEnabled == SubmitRendered /\ canProceed

\* FileUpload's state lives as long as the component is mounted: when the
\* result card replaces it the state is dropped, and the component mounts
\* again with both slots null (the inline FileUpload has no cleanup effect)
Commit(slot, nextVerification) ==
    IF Truthy(nextVerification.result) THEN Null ELSE slot

\* the state the cleanup effect of the dropzone FileUpload sees: the effect
\* has an empty dependency list, so its cleanup closes over idCardFile and
\* selfieFile of the first render, which useState(null) initialised
CleanupIdCardFile == Null
CleanupSelfieFile == Null

\* the object URLs the unmounting FileUpload revokes: the dropzone
\* FileUpload runs "if (slot) URL.revokeObjectURL(slot.preview)" on the two
\* slots its cleanup sees, the inline FileUpload has no cleanup
CleanupRevoked(slot) ==
    IF component = "dropzone" /\ Truthy(slot) THEN {Get(slot, "preview")}
    ELSE {}

Unmounts(nextVerification) ==
    ~Truthy(verification.result) /\ Truthy(nextVerification.result)

Teardown(urls, nextVerification) ==
    IF Unmounts(nextVerification)
    THEN (urls \ CleanupRevoked(CleanupIdCardFile))
            \ CleanupRevoked(CleanupSelfieFile)
    ELSE urls

CountCleanup(slot, counts) ==
    IF CleanupRevoked(slot) = {} THEN counts
    ELSE [counts EXCEPT ![Get(slot, "preview").id] = @ + 1]

CountTeardown(counts, nextVerification) ==
    IF Unmounts(nextVerification)
    THEN CountCleanup(CleanupSelfieFile,
                      CountCleanup(CleanupIdCardFile, counts))
    ELSE counts

---------------------------------------------------------------------------
(* KYCApp.handleFilesSelect *)

\* handleFilesSelect without the reset of a displayed result
handleFilesSelect_NoReset(newFiles) ==
    /\ files' = newFiles
    /\ verification' = verification

handleFilesSelect(newFiles) ==
    /\ files' = newFiles
    /\ verification' = IF Truthy(verification.result)
                       THEN IdleVerification
                       ELSE verification

---------------------------------------------------------------------------
(* FileUpload *)

Slots == {"id", "selfie"}

SlotState(type) == IF type = "id" THEN idCardFile ELSE selfieFile

\* file of a slot, "slot?.file || null"
FileOf(slot) == Or(OptGet(slot, "file"), Null)

Url(n) == [t |-> "url", id |-> n]

Uploaded(file, preview) == Obj([file |-> file, preview |-> preview])

\* handleFileSelect and handleFileRemove without their revokeObjectURL call
RevokedBy_Nothing(slot) == {}

\* the object URLs that "if (slot?.preview) URL.revokeObjectURL(slot.preview)"
\* revokes
RevokedBy(slot) ==
    IF Truthy(OptGet(slot, "preview")) THEN {Get(slot, "preview")} ELSE {}

\* the live object URLs, and the calls counted, after that statement
RevokePreview(slot, urls) == urls \ RevokedBy(slot)

CountRevoke(slot, counts) ==
    IF RevokedBy(slot) = {} THEN counts
    ELSE [counts EXCEPT ![Get(slot, "preview").id] = @ + 1]

handleFileSelect(file, type) ==
    LET validationError == validateFile(file) IN
    IF Truthy(validationError)
    THEN /\ alertMsg' = validationError
         /\ UNCHANGED <<files, verification, idCardFile, selfieFile,
                        liveUrls, nextUrl, revokeCount>>
    ELSE /\ nextUrl < MaxUrls
         /\ nextUrl' = nextUrl + 1
         /\ alertMsg' = Null
         /\ LET newFile == Uploaded(file, Url(nextUrl + 1)) IN
            IF type = "id"
            THEN /\ liveUrls' = RevokePreview(idCardFile, liveUrls)
                                  \cup {Url(nextUrl + 1)}
                 /\ revokeCount' =
                        Append(CountRevoke(idCardFile, revokeCount), 0)
                 /\ idCardFile' = newFile
                 /\ selfieFile' = selfieFile
                 /\ handleFilesSelect([idCard |-> file,
                                       selfie |-> FileOf(selfieFile)])
            ELSE /\ liveUrls' = RevokePreview(selfieFile, liveUrls)
                                  \cup {Url(nextUrl + 1)}
                 /\ revokeCount' =
                        Append(CountRevoke(selfieFile, revokeCount), 0)
                 /\ selfieFile' = newFile
                 /\ idCardFile' = idCardFile
                 /\ handleFilesSelect([idCard |-> FileOf(idCardFile),
                                       selfie |-> file])

handleFileRemove(type) ==
    /\ alertMsg' = Null
    /\ nextUrl' = nextUrl
    /\ IF type = "id"
       THEN /\ liveUrls' = RevokePreview(idCardFile, liveUrls)
            /\ revokeCount' = CountRevoke(idCardFile, revokeCount)
            /\ idCardFile' = Null
            /\ selfieFile' = selfieFile
            /\ handleFilesSelect([idCard |-> Null,
                                  selfie |-> FileOf(selfieFile)])
       ELSE /\ liveUrls' = RevokePreview(selfieFile, liveUrls)
            /\ revokeCount' = CountRevoke(selfieFile, revokeCount)
            /\ selfieFile' = Null
            /\ idCardFile' = idCardFile
            /\ handleFilesSelect([idCard |-> FileOf(idCardFile),
                                  selfie |-> Null])

\* the user picks a file in the file input of a slot
SelectFile ==
    /\ component = "inline"
    /\ InputsEnabled
    /\ \E file \in CandidateFiles, type \in Slots :
           handleFileSelect(file, type)
    /\ UNCHANGED <<apiHealth, verifyCall, inFlight, healthIssued, healthPending,
                   component>>

\* the user clicks the X on the preview of an occupied slot
RemoveFile ==
    /\ component = "inline"
    /\ InputsEnabled
    /\ \E type \in Slots :
           /\ Truthy(SlotState(type))
           /\ handleFileRemove(type)
    /\ UNCHANGED <<apiHealth, verifyCall, inFlight, healthIssued, healthPending,
                   component>>

---------------------------------------------------------------------------
(* FileUpload, the react-dropzone component *)

\* the MIME types "accept: {'image/*': [...]}" lets through, of the types
\* of CandidateFiles
ImageTypes ==
    {"image/jpeg", "image/jpg", "image/png", "image/webp", "image/gif"}

\* what a dropzone with maxFiles: 1 passes to onDrop as acceptedFiles
AcceptedLists ==
    {<< >>} \cup {<<file>> : file \in {f \in CandidateFiles :
                                          f.type \in ImageTypes}}

\* the object URLs that "if (slot) URL.revokeObjectURL(slot.preview)" revokes
RevokedIfSet(slot) ==
    IF Truthy(slot) THEN {Get(slot, "preview")} ELSE {}

CountIfSet(slot, counts) ==
    IF RevokedIfSet(slot) = {} THEN counts
    ELSE [counts EXCEPT ![Get(slot, "preview").id] = @ + 1]

createFileWithPreview(file) == Uploaded(file, Url(nextUrl + 1))

onDropIdCard(acceptedFiles) ==
    IF Len(acceptedFiles) > 0
    THEN /\ nextUrl < MaxUrls
         /\ nextUrl' = nextUrl + 1
         /\ liveUrls' = (liveUrls \ RevokedIfSet(idCardFile))
                            \cup {Url(nextUrl + 1)}
         /\ revokeCount' = Append(CountIfSet(idCardFile, revokeCount), 0)
         /\ idCardFile' = createFileWithPreview(acceptedFiles[1])
         /\ selfieFile' = selfieFile
         /\ handleFilesSelect([idCard |-> acceptedFiles[1],
                               selfie |-> FileOf(selfieFile)])
    ELSE UNCHANGED <<files, verification, idCardFile, selfieFile, liveUrls,
                     nextUrl, revokeCount>>

onDropSelfie(acceptedFiles) ==
    IF Len(acceptedFiles) > 0
    THEN /\ nextUrl < MaxUrls
         /\ nextUrl' = nextUrl + 1
         /\ liveUrls' = (liveUrls \ RevokedIfSet(selfieFile))
                            \cup {Url(nextUrl + 1)}
         /\ revokeCount' = Append(CountIfSet(selfieFile, revokeCount), 0)
         /\ selfieFile' = createFileWithPreview(acceptedFiles[1])
         /\ idCardFile' = idCardFile
         /\ handleFilesSelect([idCard |-> FileOf(idCardFile),
                               selfie |-> acceptedFiles[1]])
    ELSE UNCHANGED <<files, verification, idCardFile, selfieFile, liveUrls,
                     nextUrl, revokeCount>>

removeFile(type) ==
    /\ nextUrl' = nextUrl
    /\ IF type = "id"
       THEN /\ liveUrls' = liveUrls \ RevokedIfSet(idCardFile)
            /\ revokeCount' = CountIfSet(idCardFile, revokeCount)
            /\ idCardFile' = Null
            /\ selfieFile' = selfieFile
            /\ handleFilesSelect([idCard |-> Null,
                                  selfie |-> FileOf(selfieFile)])
       ELSE /\ liveUrls' = liveUrls \ RevokedIfSet(selfieFile)
            /\ revokeCount' = CountIfSet(selfieFile, revokeCount)
            /\ selfieFile' = Null
            /\ idCardFile' = idCardFile
            /\ handleFilesSelect([idCard |-> FileOf(idCardFile),
                                  selfie |-> Null])

\* the user drops or picks files on the ID card dropzone, disabled while
\* loading
DropIdCard ==
    /\ component = "dropzone"
    /\ InputsEnabled
    /\ \E acceptedFiles \in AcceptedLists : onDropIdCard(acceptedFiles)
    /\ alertMsg' = Null
    /\ UNCHANGED <<apiHealth, verifyCall, inFlight, healthIssued, healthPending,
                   component>>

DropSelfie ==
    /\ component = "dropzone"
    /\ InputsEnabled
    /\ \E acceptedFiles \in AcceptedLists : onDropSelfie(acceptedFiles)
    /\ alertMsg' = Null
    /\ UNCHANGED <<apiHealth, verifyCall, inFlight, healthIssued, healthPending,
                   component>>

\* the user clicks the remove button of a staged file, rendered when the
\* slot holds one and disabled while loading
RemoveDropped ==
    /\ component = "dropzone"
    /\ InputsEnabled
    /\ \E type \in Slots :
           /\ Truthy(SlotState(type))
           /\ removeFile(type)
    /\ alertMsg' = Null
    /\ UNCHANGED <<apiHealth, verifyCall, inFlight, healthIssued, healthPending,
                   component>>



---------------------------------------------------------------------------
(* Responses of the verification API *)

Reject(message) == [kind |-> "reject", message |-> message]
Http(status, statusText, body) ==
    [kind |-> "http", status |-> status, statusText |-> statusText,
     body |-> body]

\* a body on which response.json() rejects, with the SyntaxError's message
InvalidJson == [t |-> "invalid", message |-> S("Unexpected end of JSON input")]

\* response.ok
Ok(response) == response.status >= 200 /\ response.status <= 299

ReasonPhrase(status) ==
    CASE status = 200 -> S("OK")
      [] status = 201 -> S("Created")
      [] status = 404 -> S("Not Found")
      [] status = 500 -> S("Internal Server Error")
      [] OTHER -> EmptyStr

TransportMessages == {S("Failed to fetch")}

JaneDoeBody ==
    Obj([status |-> S("approved"), trust_score |-> Num(92),
         name |-> S("Jane Doe")])

SomeDetails ==
    Obj([age_validation |-> Obj([valid |-> Bool(TRUE)]),
         expiry_validation |-> Obj([valid |-> Bool(FALSE)]),
         name_validation |-> Obj([score |-> Num(80)]),
         id_validation |-> Obj([valid |-> Bool(TRUE)]),
         consistency_issues |-> Arr(<<S("dob mismatch")>>)])

SomeFraudFlags ==
    Obj([has_fraud_indicators |-> Bool(TRUE), risk_level |-> S("high"),
         flags |-> Arr(<<S("expired document")>>),
         summary |-> S("1 indicator"), details |-> SomeDetails])

FullBody ==
    Obj([verification_id |-> S("v-17"), success |-> Bool(TRUE),
         name |-> S("John Roe"), dob |-> S("1990-01-31"),
         id_number |-> S("X123"), document_type |-> S("passport"),
         trust_score |-> Num(40), face_confidence |-> Num(77),
         fraud_flags |-> SomeFraudFlags, summary |-> S("Rejected."),
         status |-> S("rejected"), timestamp |-> S("2025-01-01T00:00:00Z"),
         processing_time_ms |-> Num(1200)])

\* bodies the verify endpoint answers with in the workflow specification
VerifyBodies == {InvalidJson, Null, EmptyObj, JaneDoeBody, FullBody}

VerifyResponses ==
    {Reject(m) : m \in TransportMessages}
    \cup {Http(500, ReasonPhrase(500), EmptyObj), Http(404, EmptyStr, EmptyObj)}
    \cup {Http(200, ReasonPhrase(200), b) : b \in VerifyBodies}
    \cup {Http(201, ReasonPhrase(201), JaneDoeBody)}

---------------------------------------------------------------------------
(* KYCApp.handleVerifyKYC *)

\* the extracted block of transformedResult without the default for dob
Extracted_NoDobDefault(apiResult) ==
    Obj([name |-> Or(Get(apiResult, "name"), S("Unknown")),
         dob |-> Get(apiResult, "dob"),
         id_number |-> Or(Get(apiResult, "id_number"), S("Unknown")),
         document_type |-> Or(Get(apiResult, "document_type"), S("unknown"))])

\* transformedResult.extracted
Extracted(apiResult) ==
    Obj([name |-> Or(Get(apiResult, "name"), S("Unknown")),
         dob |-> Or(Get(apiResult, "dob"), S("Unknown")),
         id_number |-> Or(Get(apiResult, "id_number"), S("Unknown")),
         document_type |-> Or(Get(apiResult, "document_type"), S("unknown"))])

\* transformedResult.fraud_flags.details
FraudDetails(details) ==
    Obj([age_validation |-> Or(OptGet(details, "age_validation"), EmptyObj),
         expiry_validation |->
             Or(OptGet(details, "expiry_validation"), EmptyObj),
         name_validation |-> Or(OptGet(details, "name_validation"), EmptyObj),
         id_validation |-> Or(OptGet(details, "id_validation"), EmptyObj),
         consistency_issues |->
             Or(OptGet(details, "consistency_issues"), Arr(<< >>))])

\* the fraud_flags block reading the summary of the whole response
FraudFlags_TopSummary(apiResult, fraud_flags) ==
    Obj([has_fraud_indicators |->
             Coalesce(OptGet(fraud_flags, "has_fraud_indicators"),
                      Bool(FALSE)),
         risk_level |-> Or(OptGet(fraud_flags, "risk_level"), S("unknown")),
         flags |-> Or(OptGet(fraud_flags, "flags"), Arr(<< >>)),
         summary |-> Or(Get(apiResult, "summary"), EmptyStr),
         details |-> FraudDetails(OptGet(fraud_flags, "details"))])

\* transformedResult.fraud_flags
FraudFlags(apiResult, fraud_flags) ==
    Obj([has_fraud_indicators |->
             Coalesce(OptGet(fraud_flags, "has_fraud_indicators"),
                      Bool(FALSE)),
         risk_level |-> Or(OptGet(fraud_flags, "risk_level"), S("unknown")),
         flags |-> Or(OptGet(fraud_flags, "flags"), Arr(<< >>)),
         summary |-> Or(OptGet(fraud_flags, "summary"), EmptyStr),
         details |-> FraudDetails(OptGet(fraud_flags, "details"))])

\* Transform API response to match UI structure
transformedResult(apiResult) ==
    Obj([verification_id |-> Get(apiResult, "verification_id"),
         success |-> Get(apiResult, "success"),
         extracted |-> Extracted(apiResult),
         trust_score |-> Coalesce(Get(apiResult, "trust_score"), Num(0)),
         face_confidence |->
             Coalesce(Get(apiResult, "face_confidence"), Num(0)),
         fraud_flags |-> FraudFlags(apiResult, Get(apiResult, "fraud_flags")),
         summary |->
             Or(Get(apiResult, "summary"), S("Verification completed.")),
         status |-> Or(Get(apiResult, "status"), S("completed")),
         timestamp |-> Get(apiResult, "timestamp"),
         processing_time |-> Get(apiResult, "processing_time_ms")])

\* the early return taken only when both files are missing
MissingFile_Both(f) == ~Truthy(f.idCard) /\ ~Truthy(f.selfie)

\* the early return of handleVerifyKYC
MissingFile(f) == ~Truthy(f.idCard) \/ ~Truthy(f.selfie)

MissingFileMessage ==
    S("Please upload both ID document and selfie before verification.")

\* setVerification({ step: 2, isLoading: true, result: null, error: null })
UploadingVerification ==
    [step |-> 2, isLoading |-> TRUE, result |-> Null, error |-> Null]

\* setVerification(prev => ({ ...prev, step: 3 }))
Analyzing(prev) == [prev EXCEPT !.step = 3]

\* a FormData that appends the selfie under both names
FormData_SelfieTwice(f) == Obj([id_card |-> f.selfie, selfie |-> f.selfie])

FormData(f) == Obj([id_card |-> f.idCard, selfie |-> f.selfie])

\* the frame of handleVerifyKYC: pc is "fetch" while the handler awaits the
\* response to request; response is the one the last finished run handled
IdleCall == [pc |-> "idle", request |-> Null, response |-> Null]

\* new Error(`HTTP ${response.status}: ${response.statusText}`).message
HttpErrorMessage(response) ==
    Str(<<"HTTP ">> \o NumberToString(response.status) \o <<": ">>
        \o response.statusText.v)

NullBodyMessage ==
    S("Cannot read properties of null (reading 'verification_id')")

\* message of the error the try block throws on this response, Null when
\* the block runs to its end
Thrown(response) ==
    IF response.kind = "reject" THEN response.message
    ELSE IF ~Ok(response) THEN HttpErrorMessage(response)
    ELSE IF response.body.t = "invalid" THEN response.body.message
    ELSE IF Throws(response.body) THEN NullBodyMessage
    ELSE Null

\* the success path leaving the progress bar at "Analyzing"
SucceededVerification_NoStep(apiResult) ==
    [step |-> 3, isLoading |-> FALSE,
     result |-> transformedResult(apiResult), error |-> Null]

\* the success path leaving the spinner on
SucceededVerification_StillLoading(apiResult) ==
    [step |-> 4, isLoading |-> TRUE,
     result |-> transformedResult(apiResult), error |-> Null]

SucceededVerification(apiResult) ==
    [step |-> 4, isLoading |-> FALSE,
     result |-> transformedResult(apiResult), error |-> Null]

\* the catch block leaving the progress bar where it was
FailedVerification_NoReset(message) ==
    [step |-> 3, isLoading |-> FALSE, result |-> Null,
     error |-> Str(<<"Verification failed: ">> \o message.v)]

\* the catch block falling back to the Uploading step
FailedVerification_ToUploading(message) ==
    [step |-> 2, isLoading |-> FALSE, result |-> Null,
     error |-> Str(<<"Verification failed: ">> \o message.v)]

\* the catch block handing the failure to the result card as well
FailedVerification_AsResult(message) ==
    [step |-> 1, isLoading |-> FALSE,
     result |-> Obj([status |-> S("rejected")]),
     error |-> Str(<<"Verification failed: ">> \o message.v)]

\* the catch block
FailedVerification(message) ==
    [step |-> 1, isLoading |-> FALSE, result |-> Null,
     error |-> Str(<<"Verification failed: ">> \o message.v)]

\* handleVerifyKYC from its entry up to the await of fetch: both
\* setVerification calls are queued by the same handler run, so the
\* committed state is the second update applied to the first
handleVerifyKYC ==
    IF MissingFile(files)
    THEN /\ alertMsg' = MissingFileMessage
         /\ UNCHANGED <<verification, verifyCall, inFlight>>
    ELSE /\ alertMsg' = Null
         /\ verification' = Analyzing(UploadingVerification)
         /\ inFlight' = inFlight + 1
         /\ verifyCall' = [pc |-> "fetch", request |-> FormData(files),
                           response |-> Null]

\* handleVerifyKYC from the settled fetch to its end.  The handler reads
\* no component state after the await, so the await of response.json()
\* is folded into the same step.
VerifySettled(response) ==
    /\ verifyCall.pc = "fetch"
    /\ inFlight' = inFlight - 1
    /\ verifyCall' = IF inFlight > 1
                     THEN [verifyCall EXCEPT !.response = response]
                     ELSE [IdleCall EXCEPT !.response = response]
    /\ verification' = IF Truthy(Thrown(response))
                       THEN FailedVerification(Thrown(response))
                       ELSE SucceededVerification(response.body)
    /\ idCardFile' = Commit(idCardFile, verification')
    /\ selfieFile' = Commit(selfieFile, verification')
    /\ liveUrls' = Teardown(liveUrls, verification')
    /\ revokeCount' = CountTeardown(revokeCount, verification')
    /\ alertMsg' = Null

\* the user clicks the enabled Start Verification button
ClickVerify ==
    /\ SubmitEnabled
    /\ handleVerifyKYC
    /\ UNCHANGED <<files, apiHealth, idCardFile, selfieFile, liveUrls,
                   nextUrl, healthIssued, healthPending, component,
                   revokeCount>>

\* startVerification() is invoked although a slot is empty (the button
\* that calls it is disabled then, so only a direct caller gets here)
CallVerify ==
    /\ ~(Truthy(files.idCard) /\ Truthy(files.selfie))
    /\ handleVerifyKYC
    /\ UNCHANGED <<files, apiHealth, idCardFile, selfieFile, liveUrls,
                   nextUrl, healthIssued, healthPending, component,
                   revokeCount>>

VerifyResponse ==
    /\ \E response \in VerifyResponses : VerifySettled(response)
    /\ UNCHANGED <<files, apiHealth, nextUrl, healthIssued, healthPending,
                   component>>

---------------------------------------------------------------------------
(* KYCApp.handleStartOver *)

\* handleStartOver without its setFiles call
handleStartOver_KeepFiles ==
    /\ files' = files
    /\ verification' = IdleVerification

handleStartOver ==
    /\ files' = [idCard |-> Null, selfie |-> Null]
    /\ verification' = IdleVerification

\* the user clicks "Verify Another Identity"
StartOver ==
    /\ StartOverShown
    /\ handleStartOver
    /\ alertMsg' = Null
    /\ UNCHANGED <<apiHealth, idCardFile, selfieFile, liveUrls, nextUrl,
                   verifyCall, inFlight, healthIssued, healthPending, component,
                   revokeCount>>

---------------------------------------------------------------------------
(* KYCApp.checkApiHealth *)

\* new Date().toLocaleTimeString()
Times == {S("10:00:00")}

HealthPayloads == {Obj([status |-> S("healthy")])}

HealthResponses ==
    {Reject(m) : m \in TransportMessages}
    \cup {Http(503, EmptyStr, Null)}
    \cup {Http(200, ReasonPhrase(200), b) :
            b \in HealthPayloads \cup {InvalidJson}}

HealthyStatus(time, healthData) ==
    Obj([status |-> S("healthy"), lastChecked |-> time, data |-> healthData])

ErrorStatus(time, message) ==
    Obj([status |-> S("error"), lastChecked |-> time, error |-> message])

\* checkApiHealth reporting every non-2xx status as "HTTP error"
HealthOutcome_NoCode(response, time) ==
    IF response.kind = "reject" THEN ErrorStatus(time, response.message)
    ELSE IF Ok(response)
    THEN IF response.body.t = "invalid"
         THEN ErrorStatus(time, response.body.message)
         ELSE HealthyStatus(time, response.body)
    ELSE ErrorStatus(time, S("HTTP error"))

\* the value checkApiHealth passes to setApiHealth for this response
HealthOutcome(response, time) ==
    IF response.kind = "reject" THEN ErrorStatus(time, response.message)
    ELSE IF Ok(response)
    THEN IF response.body.t = "invalid"
         THEN ErrorStatus(time, response.body.message)
         ELSE HealthyStatus(time, response.body)
    ELSE ErrorStatus(time, Str(<<"HTTP ">> \o NumberToString(response.status)))

\* checkApiHealth up to the await of fetch
checkApiHealth ==
    /\ healthIssued < MaxProbes
    /\ healthIssued' = healthIssued + 1
    /\ healthPending' = healthPending \cup {healthIssued + 1}

\* the user clicks Refresh
RefreshHealth ==
    /\ checkApiHealth
    /\ alertMsg' = Null
    /\ UNCHANGED <<files, verification, apiHealth, idCardFile, selfieFile,
                   liveUrls, nextUrl, verifyCall, inFlight, component, revokeCount>>

\* checkApiHealth that drops the response of a probe that is not the one
\* issued last
HealthSettled_LatestOnly(probe, response, time) ==
    /\ probe \in healthPending
    /\ healthPending' = healthPending \ {probe}
    /\ apiHealth' = IF probe = healthIssued
                    THEN HealthOutcome(response, time)
                    ELSE apiHealth
    /\ UNCHANGED <<files, verification>>

\* checkApiHealth that also reports a failed probe in the error banner of
\* the workflow
HealthSettled_ErrorBanner(probe, response, time) ==
    /\ probe \in healthPending
    /\ healthPending' = healthPending \ {probe}
    /\ apiHealth' = HealthOutcome(response, time)
    /\ verification' =
          IF Get(apiHealth', "status") = S("error")
          THEN [verification EXCEPT !.error = Get(apiHealth', "error")]
          ELSE verification
    /\ UNCHANGED files

\* checkApiHealth from the settled fetch to its end: setApiHealth is the
\* only state setter it calls
HealthSettled(probe, response, time) ==
    /\ probe \in healthPending
    /\ healthPending' = healthPending \ {probe}
    /\ apiHealth' = HealthOutcome(response, time)
    /\ UNCHANGED <<files, verification>>

HealthResponse ==
    /\ \E probe \in healthPending, response \in HealthResponses,
          time \in Times : HealthSettled(probe, response, time)
    /\ alertMsg' = Null
    /\ UNCHANGED <<idCardFile, selfieFile, liveUrls, nextUrl, verifyCall, inFlight,
                   healthIssued, component, revokeCount>>

---------------------------------------------------------------------------
(* The workflow specification *)

\* the state after KYCApp has mounted: the mount effect has called
\* checkApiHealth once
Init ==
    /\ files = [idCard |-> Null, selfie |-> Null]
    /\ verification = IdleVerification
    /\ apiHealth = Obj([status |-> S("unknown"), lastChecked |-> Null])
    /\ idCardFile = Null
    /\ selfieFile = Null
    /\ liveUrls = {}
    /\ nextUrl = 0
    /\ verifyCall = IdleCall
    /\ healthIssued = 1
    /\ healthPending = {1}
    /\ alertMsg = Null
    /\ component = "inline"
    /\ inFlight = 0
    /\ revokeCount = << >>

Next ==
    \/ SelectFile
    \/ RemoveFile
    \/ ClickVerify
    \/ CallVerify
    \/ VerifyResponse
    \/ StartOver
    \/ RefreshHealth
    \/ HealthResponse

Spec == Init /\ [][Next]_vars

TypeOK ==
    /\ verification.step \in 1..4
    /\ verification.isLoading \in BOOLEAN
    /\ nextUrl \in 0..MaxUrls

---------------------------------------------------------------------------
(* The projection specification: one verification attempt, answered with   *)
(* 2xx and a body drawn from objects that differ from the empty object or  *)
(* from a complete response in at most two fields                          *)

TopKeys ==
    {"verification_id", "success", "name", "dob", "id_number",
     "document_type", "trust_score", "face_confidence", "fraud_flags",
     "summary", "status", "timestamp", "processing_time",
     "processing_time_ms"}

NumberKeys ==
    {"trust_score", "face_confidence", "processing_time",
     "processing_time_ms"}

NumberOf(k) ==
    CASE k = "trust_score" -> 92
      [] k = "face_confidence" -> 77
      [] k = "processing_time" -> 5
      [] k = "processing_time_ms" -> 1200

\* SomeDetails with one member absent, null or empty
DetailsOptions ==
    {Undefined, Null, EmptyObj, SomeDetails}
    \cup {Obj([SomeDetails.v EXCEPT ![k] = x]) :
            k \in DOMAIN SomeDetails.v,
            x \in {Undefined, Null, EmptyObj, Arr(<< >>)}}

\* SomeFraudFlags with one member absent, null, falsy or replaced
FraudFlagsOptions ==
    {Undefined, Null, EmptyObj, SomeFraudFlags, S("none")}
    \cup {Obj([SomeFraudFlags.v EXCEPT !.has_fraud_indicators = x]) :
            x \in {Undefined, Null, Bool(FALSE)}}
    \cup {Obj([SomeFraudFlags.v EXCEPT !.risk_level = x]) :
            x \in {Undefined, Null, EmptyStr}}
    \cup {Obj([SomeFraudFlags.v EXCEPT !.flags = x]) :
            x \in {Undefined, Null, Arr(<< >>)}}
    \cup {Obj([SomeFraudFlags.v EXCEPT !.summary = x]) :
            x \in {Undefined, Null, EmptyStr}}
    \cup {Obj([SomeFraudFlags.v EXCEPT !.details = x]) : x \in DetailsOptions}

\* the values a response may carry under key k; Undefined: it has no such key
Options(k) ==
    IF k = "fraud_flags" THEN FraudFlagsOptions
    ELSE IF k = "success" THEN {Undefined, Null, Bool(FALSE), Bool(TRUE)}
    ELSE IF k \in NumberKeys THEN {Undefined, Null, Num(0), Num(NumberOf(k))}
    ELSE {Undefined, Null, EmptyStr, S(k)}

SparseBody == [k \in TopKeys |-> Undefined]

CompleteBody ==
    [k \in TopKeys |->
        IF k = "fraud_flags" THEN SomeFraudFlags
        ELSE IF k = "success" THEN Bool(TRUE)
        ELSE IF k \in NumberKeys THEN Num(NumberOf(k))
        ELSE S(k)]

\* the bodies that differ from base under key k at most
Patched(base, k) == {[base EXCEPT ![k] = x] : x \in Options(k)}

ProjectBodies ==
    {Obj(b) : b \in UNION {UNION {Patched(b1, k2) : b1 \in Patched(base, k1)} :
        base \in {SparseBody, CompleteBody},
        k1 \in {"name", "trust_score", "fraud_flags", "status",
                "processing_time", "processing_time_ms"},
        k2 \in TopKeys}}

\* a verification attempt awaiting its response: "id.jpg" and "me.png" were
\* staged and Start Verification was clicked
ProjectInit ==
    /\ files = [idCard |-> File("id.jpg", 5 * MiB, "image/jpeg"),
                selfie |-> File("me.png", 2 * MiB, "image/png")]
    /\ verification = Analyzing(UploadingVerification)
    /\ apiHealth = Obj([status |-> S("unknown"), lastChecked |-> Null])
    /\ idCardFile = Uploaded(files.idCard, Url(1))
    /\ selfieFile = Uploaded(files.selfie, Url(2))
    /\ liveUrls = {Url(1), Url(2)}
    /\ nextUrl = 2
    /\ verifyCall = [pc |-> "fetch", request |-> FormData(files),
                     response |-> Null]
    /\ healthIssued = 1
    /\ healthPending = {1}
    /\ alertMsg = Null
    /\ component = "inline"
    /\ inFlight = 1
    /\ revokeCount = <<0, 0>>

ProjectResponse ==
    /\ \E body \in ProjectBodies :
           VerifySettled(Http(200, ReasonPhrase(200), body))
    /\ UNCHANGED <<files, apiHealth, nextUrl, healthIssued, healthPending,
                   component>>

ProjectNext == ProjectResponse

SpecProject == ProjectInit /\ [][ProjectNext]_vars

---------------------------------------------------------------------------
(* Properties of the workflow *)

\* the chunks of sub occur in s, in a row
Contains(s, sub) ==
    \E i \in 1..(Len(s) - Len(sub) + 1) : SubSeq(s, i, i + Len(sub) - 1) = sub

\* transport failure, or an HTTP status outside 200..299
IsFailure(response) ==
    \/ response.kind = "reject"
    \/ response.kind = "http" /\ response.status \notin 200..299

Is2xx(response) ==
    response.kind = "http" /\ response.status \in 200..299

StatusCodeText(status) ==
    CASE status = 404 -> <<"4", "0", "4">>
      [] status = 500 -> <<"5", "0", "0">>
      [] status = 503 -> <<"5", "0", "3">>

BothStaged ==
    /\ Truthy(idCardFile) /\ Truthy(selfieFile)
    /\ Truthy(files.idCard) /\ Truthy(files.selfie)
    /\ files.idCard = Get(idCardFile, "file")
    /\ files.selfie = Get(selfieFile, "file")

\* C1: after a failed verify attempt (transport failure or non-2xx status)
\* the workflow is at step 1, not loading, without result, with an error
\* (holding the status code for a non-2xx response), and both staged files
\* are the ones that were staged before the attempt.
C1_FailedVerifyReturnsToIdle ==
    [][\A response \in VerifyResponses :
          (IsFailure(response) /\ VerifySettled(response)) =>
             /\ verification'.step = 1
             /\ verification'.isLoading = FALSE
             /\ verification'.result = Null
             /\ Truthy(verification'.error)
             /\ response.kind = "http" =>
                   Contains(verification'.error.v,
                            StatusCodeText(response.status))
             /\ BothStaged'
             /\ UNCHANGED <<files, idCardFile, selfieFile>>]_vars

C1_Witness ==
    /\ verification.step = 1
    /\ ~verification.isLoading
    /\ verification.error.t = "string"
    /\ Contains(verification.error.v, <<"5", "0", "0">>)
    /\ BothStaged

\* C2 as stated: every 2xx verify response ends in step 4, not loading,
\* with a result and without an error.
C2_Original ==
    [][\A response \in VerifyResponses :
          (Is2xx(response) /\ VerifySettled(response)) =>
             /\ verification'.step = 4
             /\ verification'.isLoading = FALSE
             /\ Truthy(verification'.result)
             /\ verification'.error = Null]_vars

\* C2 amended: a 2xx verify response whose body parses as a JSON object
\* ends in step 4, not loading, with a result and without an error; for
\* the body {status:"approved", trust_score:92, name:"Jane Doe"} the result
\* has trust_score 92, extracted.name "Jane Doe", extracted.dob "Unknown"
\* and fraud_flags.flags [].
C2_SuccessEndsInStep4 ==
    [][\A response \in VerifyResponses :
          (Is2xx(response) /\ response.body.t = "object"
             /\ VerifySettled(response)) =>
             /\ verification'.step = 4
             /\ verification'.isLoading = FALSE
             /\ Truthy(verification'.result)
             /\ verification'.error = Null
             /\ response.body = JaneDoeBody =>
                   LET result == verification'.result.v IN
                   /\ result.trust_score = Num(92)
                   /\ result.extracted.v.name = S("Jane Doe")
                   /\ result.extracted.v.dob = S("Unknown")
                   /\ result.fraud_flags.v.flags = Arr(<< >>)]_vars

C2_Witness ==
    /\ verification.step = 4
    /\ ~verification.isLoading
    /\ verification.result.t = "object"
    /\ verification.result.v.trust_score = Num(92)
    /\ verification.result.v.extracted.v.name = S("Jane Doe")
    /\ verification.error = Null

\* C3: startVerification() called while a slot is empty changes none of
\* step, isLoading, result, error and dispatches no verify request.
C3_GuardChangesNothing ==
    [][CallVerify => UNCHANGED <<verification, verifyCall, inFlight, files>>]_vars

C3_Witness ==
    /\ alertMsg = MissingFileMessage
    /\ Truthy(files.idCard)
    /\ ~Truthy(files.selfie)
    /\ verifyCall.pc = "idle"
    /\ verification = IdleVerification

\* C4: step is always one of 1..4; it moves forward only from 1 to 3 (through
\* 2) when a request is dispatched and from 3 to 4 when its response is
\* handled, and it moves backward only to 1: on a failed attempt, on start
\* over, or on a file change while a result is displayed.
C4_StepOrder ==
    /\ [](verification.step \in 1..4)
    /\ [][/\ verification'.step > verification.step =>
               \/ /\ verification.step = 1
                  /\ verification'.step = 3
                  /\ verifyCall.pc = "idle" /\ verifyCall'.pc = "fetch"
               \/ /\ verification.step = 3
                  /\ verification'.step = 4
                  /\ verifyCall.pc = "fetch" /\ verifyCall'.pc = "idle"
          /\ verification'.step < verification.step =>
               /\ verification'.step = 1
               /\ \/ /\ verifyCall.pc = "fetch" /\ verifyCall'.pc = "idle"
                     /\ Truthy(verification'.error)
                  \/ /\ Truthy(verification.result)
                     /\ files' = [idCard |-> Null, selfie |-> Null]
                  \/ /\ Truthy(verification.result)
                     /\ files' # files]_vars

C4_Witness ==
    /\ verification.step = 1
    /\ Truthy(verification.error)
    /\ nextUrl = 3
    /\ BothStaged

\* C5: result and error are never both populated.
C5_ResultErrorExclusive ==
    ~(Truthy(verification.result) /\ Truthy(verification.error))

C5_Witness ==
    /\ verification.error = Str(<<"Verification failed: ", "Failed to fetch">>)
    /\ verification.result = Null

\* C6: the submit action is enabled only if both file slots are occupied
\* and isLoading is false.
C6_SubmitEnabledOnlyWhenReady ==
    SubmitEnabled => BothStaged /\ ~verification.isLoading

C6_Witness ==
    /\ SubmitEnabled
    /\ files.idCard = File("id.jpg", 5 * MiB, "image/jpeg")
    /\ files.selfie = File("me.png", 2 * MiB, "image/png")

\* larger than 10 MiB, or of a media type other than JPEG, PNG, WebP
Rejectable(file) ==
    \/ file.size > 10485760
    \/ file.type \notin {"image/jpeg", "image/png", "image/webp"}

---------------------------------------------------------------------------
(* Properties of the projection *)

RECURSIVE At(_, _)
\* the value at a path of keys; Undefined where the path does not lead
At(value, path) ==
    IF path = << >> THEN value
    ELSE IF value.t = "object" /\ Head(path) \in DOMAIN value.v
    THEN At(value.v[Head(path)], Tail(path))
    ELSE Undefined

Populated(value) == value.t \notin {"undefined", "null"}

\* the documented mapping: output path, source path, default, and how the
\* code tells an absent source ("or": any falsy value, "nullish": null or
\* undefined, "pass": no default)
Field(out, src, default, rule) ==
    [out |-> out, src |-> src, default |-> default, rule |-> rule]

DefaultedFields ==
    { Field(<<"extracted", "name">>, <<"name">>, S("Unknown"), "or"),
      Field(<<"extracted", "dob">>, <<"dob">>, S("Unknown"), "or"),
      Field(<<"extracted", "id_number">>, <<"id_number">>, S("Unknown"), "or"),
      Field(<<"extracted", "document_type">>, <<"document_type">>,
            S("unknown"), "or"),
      Field(<<"trust_score">>, <<"trust_score">>, Num(0), "nullish"),
      Field(<<"face_confidence">>, <<"face_confidence">>, Num(0), "nullish"),
      Field(<<"fraud_flags", "has_fraud_indicators">>,
            <<"fraud_flags", "has_fraud_indicators">>, Bool(FALSE), "nullish"),
      Field(<<"fraud_flags", "risk_level">>, <<"fraud_flags", "risk_level">>,
            S("unknown"), "or"),
      Field(<<"fraud_flags", "flags">>, <<"fraud_flags", "flags">>,
            Arr(<< >>), "or"),
      Field(<<"fraud_flags", "summary">>, <<"fraud_flags", "summary">>,
            EmptyStr, "or"),
      Field(<<"fraud_flags", "details", "age_validation">>,
            <<"fraud_flags", "details", "age_validation">>, EmptyObj, "or"),
      Field(<<"fraud_flags", "details", "expiry_validation">>,
            <<"fraud_flags", "details", "expiry_validation">>, EmptyObj, "or"),
      Field(<<"fraud_flags", "details", "name_validation">>,
            <<"fraud_flags", "details", "name_validation">>, EmptyObj, "or"),
      Field(<<"fraud_flags", "details", "id_validation">>,
            <<"fraud_flags", "details", "id_validation">>, EmptyObj, "or"),
      Field(<<"fraud_flags", "details", "consistency_issues">>,
            <<"fraud_flags", "details", "consistency_issues">>,
            Arr(<< >>), "or"),
      Field(<<"summary">>, <<"summary">>, S("Verification completed."), "or"),
      Field(<<"status">>, <<"status">>, S("completed"), "or") }

PassThroughFields ==
    { Field(<<"verification_id">>, <<"verification_id">>, Undefined, "pass"),
      Field(<<"success">>, <<"success">>, Undefined, "pass"),
      Field(<<"timestamp">>, <<"timestamp">>, Undefined, "pass") }

\* processing_time as documented, and as the code reads it
ProcessingTimeSameName ==
    Field(<<"processing_time">>, <<"processing_time">>, Undefined, "pass")
ProcessingTimeFromMs ==
    Field(<<"processing_time">>, <<"processing_time_ms">>, Undefined, "pass")

Falsy(value) ==
    value \in {Undefined, Null, Bool(FALSE), Num(0), EmptyStr}

\* the output the documented mapping asks for: the source value when it is
\* present, the default when it is absent
Documented(field, source) ==
    IF field.rule = "pass" \/ source # Undefined THEN source
    ELSE field.default

\* the output the code produces
Produced(field, source) ==
    CASE field.rule = "pass" -> source
      [] field.rule = "nullish" ->
            IF source \in {Undefined, Null} THEN field.default ELSE source
      [] field.rule = "or" ->
            IF Falsy(source) THEN field.default ELSE source

\* the last verify call handled a 2xx response with a JSON object as body
ProjectedObject ==
    /\ verifyCall.pc = "idle"
    /\ verifyCall.response # Null
    /\ Is2xx(verifyCall.response)
    /\ verifyCall.response.body.t = "object"

\* C8 as stated: for every JSON object of a 2xx response the projection
\* does not throw and every documented field of the result is populated.
C8_Original ==
    ProjectedObject =>
        /\ verification.step = 4
        /\ \A field \in DefaultedFields \cup PassThroughFields
                        \cup {ProcessingTimeSameName} :
               Populated(At(verification.result, field.out))

\* C8 amended: for every JSON object of a 2xx response the projection does
\* not throw and every field of the result that has a documented default is
\* populated (verification_id, success, timestamp and processing_time have
\* none and are undefined or null when the response has them so).
C8_DefaultedFieldsPopulated ==
    ProjectedObject =>
        /\ verification.step = 4
        /\ verification.error = Null
        /\ \A field \in DefaultedFields :
               Populated(At(verification.result, field.out))

C8_Witness ==
    /\ ProjectedObject
    /\ verifyCall.response.body = Obj(SparseBody)
    /\ verification.step = 4
    /\ At(verification.result, <<"extracted", "dob">>) = S("Unknown")
    /\ At(verification.result, <<"timestamp">>) = Undefined

\* C9 as stated: every defaulted output field is the value at its source
\* path when the response has one and the default only when it has none;
\* verification_id, success, timestamp and processing_time are the response
\* fields of the same name.
C9_Original ==
    ProjectedObject =>
        \A field \in DefaultedFields \cup PassThroughFields
                     \cup {ProcessingTimeSameName} :
            At(verification.result, field.out)
              = Documented(field, At(verifyCall.response.body, field.src))

\* C9 amended: an output field defaulted with || is the value at its source
\* path when that value is truthy and the default when it is absent, null,
\* false, 0 or ""; trust_score, face_confidence and
\* fraud_flags.has_fraud_indicators are the source value unless it is absent
\* or null; verification_id, success and timestamp are the response fields
\* of the same name, and processing_time is the response field
\* processing_time_ms.
C9_ProjectionMapping ==
    ProjectedObject =>
        \A field \in DefaultedFields \cup PassThroughFields
                     \cup {ProcessingTimeFromMs} :
            At(verification.result, field.out)
              = Produced(field, At(verifyCall.response.body, field.src))

C9_Witness ==
    /\ ProjectedObject
    /\ verifyCall.response.body =
          Obj([CompleteBody EXCEPT !["name"] = EmptyStr,
                                   !["trust_score"] = Num(0)])
    /\ At(verification.result, <<"extracted", "name">>) = S("Unknown")
    /\ At(verification.result, <<"trust_score">>) = Num(0)
    /\ At(verification.result, <<"fraud_flags", "summary">>) = S("1 indicator")
    /\ At(verification.result, <<"processing_time">>) = Num(1200)

---------------------------------------------------------------------------
(* Properties of the health probe *)

HealthCodeText(status) == Str(<<"HTTP ">> \o StatusCodeText(status))

\* C10 as stated: a completed checkHealth sets status healthy and keeps the
\* payload when the endpoint answered with a 2xx status, and sets status
\* error otherwise, with error "HTTP <code>" for a non-2xx status and the
\* thrown message for a transport failure.
C10_Original ==
    [][\A probe \in healthPending, response \in HealthResponses,
          time \in Times :
          HealthSettled(probe, response, time) =>
             IF Is2xx(response)
             THEN /\ Get(apiHealth', "status") = S("healthy")
                  /\ Get(apiHealth', "data") = response.body
             ELSE /\ Get(apiHealth', "status") = S("error")
                  /\ Get(apiHealth', "error") =
                        IF response.kind = "reject" THEN response.message
                        ELSE HealthCodeText(response.status)]_vars

\* C10 amended: a completed checkHealth sets status healthy and keeps the
\* payload when the endpoint answered with a 2xx status and a body that
\* parses as JSON, and sets status error otherwise, with error
\* "HTTP <code>" for a non-2xx status and the thrown message for a
\* transport failure or a body that does not parse.
C10_HealthOutcome ==
    [][\A probe \in healthPending, response \in HealthResponses,
          time \in Times :
          HealthSettled(probe, response, time) =>
             IF Is2xx(response) /\ response.body.t # "invalid"
             THEN /\ Get(apiHealth', "status") = S("healthy")
                  /\ Get(apiHealth', "data") = response.body
                  /\ Get(apiHealth', "error") = Undefined
             ELSE /\ Get(apiHealth', "status") = S("error")
                  /\ Get(apiHealth', "data") = Undefined
                  /\ Get(apiHealth', "error") =
                        IF response.kind = "reject" THEN response.message
                        ELSE IF Is2xx(response) THEN response.body.message
                        ELSE HealthCodeText(response.status)]_vars

C10_Witness ==
    /\ Get(apiHealth, "status") = S("error")
    /\ Get(apiHealth, "error") = Str(<<"HTTP ", "5", "0", "3">>)
    /\ healthPending = {}

---------------------------------------------------------------------------
(* The staging specification: the workflow around either FileUpload, without
   the health probes *)

StagingInit ==
    /\ files = [idCard |-> Null, selfie |-> Null]
    /\ verification = IdleVerification
    /\ apiHealth = Obj([status |-> S("unknown"), lastChecked |-> Null])
    /\ idCardFile = Null
    /\ selfieFile = Null
    /\ liveUrls = {}
    /\ nextUrl = 0
    /\ verifyCall = IdleCall
    /\ healthIssued = 1
    /\ healthPending = {1}
    /\ alertMsg = Null
    /\ component \in {"inline", "dropzone"}
    /\ inFlight = 0
    /\ revokeCount = << >>

StagingNext ==
    \/ SelectFile
    \/ RemoveFile
    \/ DropIdCard
    \/ DropSelfie
    \/ RemoveDropped
    \/ ClickVerify
    \/ VerifyResponse
    \/ StartOver

SpecStaging == StagingInit /\ [][StagingNext]_vars

---------------------------------------------------------------------------
(* The handler specification of handleFilesSelect: KYCApp after it has
   handled a verify response, and the calls of its onFilesSelect prop.
   KYCApp renders the FileUpload only while it holds no result, so that
   with a result the prop is called here as a function, with the value a
   FileUpload reports for a change of one slot. *)

ValidFiles == {file \in CandidateFiles : validateFile(file) = Null}

FilesSelectInit ==
    \E response \in VerifyResponses, id \in ValidFiles, selfie \in ValidFiles :
       /\ files = [idCard |-> id, selfie |-> selfie]
       /\ verification = IF Truthy(Thrown(response))
                         THEN FailedVerification(Thrown(response))
                         ELSE SucceededVerification(response.body)
       /\ verifyCall = [IdleCall EXCEPT !.response = response]
       /\ idCardFile = Commit(Uploaded(id, Url(1)), verification)
       /\ selfieFile = Commit(Uploaded(selfie, Url(2)), verification)
       /\ liveUrls = {Url(1), Url(2)}
       /\ nextUrl = 2
       /\ revokeCount = <<0, 0>>
       /\ inFlight = 0
       /\ apiHealth = Obj([status |-> S("unknown"), lastChecked |-> Null])
       /\ healthIssued = 1
       /\ healthPending = {1}
       /\ alertMsg = Null
       /\ component = "inline"

\* onFilesSelect called while a result is held
CallFilesSelect ==
    /\ Truthy(verification.result)
    /\ \E type \in Slots, value \in ValidFiles \cup {Null} :
          handleFilesSelect(IF type = "id"
                            THEN [idCard |-> value, selfie |-> files.selfie]
                            ELSE [idCard |-> files.idCard, selfie |-> value])
    /\ alertMsg' = Null
    /\ UNCHANGED <<apiHealth, idCardFile, selfieFile, liveUrls, nextUrl,
                   verifyCall, inFlight, healthIssued, healthPending,
                   component, revokeCount>>

FilesSelectNext ==
    \/ CallFilesSelect
    \/ SelectFile
    \/ RemoveFile

SpecFilesSelect == FilesSelectInit /\ [][FilesSelectNext]_vars

---------------------------------------------------------------------------
(* C11: health probes and verification attempts do not interact *)

WorkflowStep ==
    SelectFile \/ RemoveFile \/ ClickVerify \/ CallVerify \/ VerifyResponse
    \/ StartOver

HealthStep == RefreshHealth \/ HealthResponse

\* C11: no step of checkApiHealth (its dispatch, its success, its failure)
\* changes step, isLoading, result, error, the staged files or the slots, or
\* whether the submit button is enabled, and no step of the verification
\* workflow changes apiHealth
C11_HealthAndVerifyIndependent ==
    [][/\ HealthStep =>
            /\ UNCHANGED <<verification, files, idCardFile, selfieFile,
                           verifyCall, inFlight>>
            /\ SubmitEnabled' = SubmitEnabled
       /\ WorkflowStep => UNCHANGED <<apiHealth, healthPending, healthIssued>>
      ]_vars

\* the Refresh probe has been issued and has failed while the verify request
\* is outstanding and the probe of the mount effect is still pending
C11_Witness ==
    /\ verifyCall.pc = "fetch"
    /\ healthIssued = 2
    /\ healthPending = {1}
    /\ Get(apiHealth, "status") = S("error")

---------------------------------------------------------------------------
(* C12: start over *)

\* C12: after "Verify Another Identity", from any state that shows the
\* button, both file slots are empty (in KYCApp and in the FileUpload that
\* mounts again) and the workflow is at step 1, not loading, without result
\* and without error
C12_StartOverResets ==
    [][StartOver =>
        /\ files' = [idCard |-> Null, selfie |-> Null]
        /\ idCardFile' = Null
        /\ selfieFile' = Null
        /\ verification' = IdleVerification]_vars

\* the state after starting over from a displayed result: a 2xx response
\* has been handled, nothing is staged and the workflow is idle
C12_Witness ==
    /\ verifyCall.pc = "idle"
    /\ verifyCall.response # Null
    /\ Is2xx(verifyCall.response)
    /\ files = [idCard |-> Null, selfie |-> Null]
    /\ idCardFile = Null
    /\ selfieFile = Null
    /\ verification = IdleVerification

---------------------------------------------------------------------------
(* C13, C14: the preview object URLs *)

\* the previews the slots of the mounted FileUpload hold
PreviewsHeld ==
    {Get(slot, "preview") : slot \in {x \in {idCardFile, selfieFile} :
                                         Truthy(x)}}

\* the previews a step takes out of the slots, and the ones it puts in
Dropped == PreviewsHeld \ PreviewsHeld'
Created == PreviewsHeld' \ PreviewsHeld

C13_HeldPreviewsLive ==
    /\ \A u \in PreviewsHeld : u \in liveUrls /\ revokeCount[u.id] = 0
    /\ \A i \in DOMAIN revokeCount : revokeCount[i] <= 1
    /\ Truthy(idCardFile) /\ Truthy(selfieFile)
          => Get(idCardFile, "preview") # Get(selfieFile, "preview")

C13_ReplacedReleasedOnce ==
    FileUploadMounted /\ FileUploadMounted' =>
        /\ liveUrls' = (liveUrls \ Dropped) \cup Created
        /\ \A u \in Dropped : revokeCount'[u.id] = 1
        /\ \A i \in DOMAIN revokeCount :
               Url(i) \notin Dropped => revokeCount'[i] = revokeCount[i]

\* C13: over every sequence of select and remove operations on the slots of
\* a mounted FileUpload, the preview a slot holds is live and is the only
\* live one of the previews made for that slot, and every preview that is
\* replaced or removed is revoked exactly once: once by the step that takes
\* it out of the slot, and by no step after
C13_OnePreviewPerSlot ==
    [] C13_HeldPreviewsLive /\ [][C13_ReplacedReleasedOnce]_vars

\* a file has been dropped on the ID card dropzone while it held one: the
\* first preview has been revoked once and the second is live
C13_Witness ==
    /\ component = "dropzone"
    /\ FileUploadMounted
    /\ Truthy(idCardFile)
    /\ Get(idCardFile, "preview") = Url(2)
    /\ revokeCount = <<1, 0>>
    /\ liveUrls = {Url(2)}

\* C14: no preview is live that no occupied slot of a mounted FileUpload
\* holds: the previews have been revoked when the FileUpload is unmounted
\* for the result card and when the workflow is reset
C14_NoPreviewOutlivesFileUpload == liveUrls \subseteq PreviewsHeld

---------------------------------------------------------------------------
(* C15: dispatch of the verify request *)

Dispatches == inFlight' > inFlight

GuardPassed == Truthy(files.idCard) /\ Truthy(files.selfie)

\* C15: every handleVerifyKYC that passes the guard on the two slots sends
\* exactly one verify request, which carries the two files staged at that
\* moment; no other step sends one: a handleVerifyKYC stopped by the guard
\* sends none, and the handling of a response, failed or not, sends none,
\* so that after a failed attempt a request is sent only when the user
\* starts verification again
C15_OneRequestPerStart ==
    [][/\ (ClickVerify \/ CallVerify) /\ GuardPassed =>
            /\ inFlight' = inFlight + 1
            /\ verifyCall'.pc = "fetch"
            /\ verifyCall'.request =
                  Obj([id_card |-> files.idCard, selfie |-> files.selfie])
            /\ files.idCard = FileOf(idCardFile)
            /\ files.selfie = FileOf(selfieFile)
       /\ Dispatches => (ClickVerify \/ CallVerify) /\ GuardPassed
       /\ VerifyResponse => inFlight' = inFlight - 1
      ]_vars

\* the request for id.jpg and me.png is outstanding
C15_Witness ==
    /\ inFlight = 1
    /\ verifyCall.pc = "fetch"
    /\ Get(verifyCall.request, "id_card").name = "id.jpg"
    /\ Get(verifyCall.request, "selfie").name = "me.png"

---------------------------------------------------------------------------
(* C16: a file change while a result is held *)

---------------------------------------------------------------------------
(* C17: the workflow while the verify request is outstanding *)

Outstanding == verifyCall.pc = "fetch"

\* C17: while the verify request is outstanding the workflow is loading,
\* and as long as its response is not handled no step (select, remove,
\* submit, start over, Refresh, a health response) sets isLoading to false,
\* changes step or changes the staged files: with no response, isLoading
\* stays true for ever
C17_LoadingUntilResponse ==
    /\ [](Outstanding => verification.isLoading /\ verification.step = 3)
    /\ [][Outstanding /\ Outstanding' =>
            /\ verification'.isLoading
            /\ verification'.step = verification.step
            /\ UNCHANGED <<files, idCardFile, selfieFile>>]_vars

\* the request is outstanding and both health probes have been answered
\* meanwhile or before
C17_Witness ==
    /\ Outstanding
    /\ verification.isLoading
    /\ healthIssued = 2
    /\ healthPending = {}

---------------------------------------------------------------------------
(* C18: one verify request at a time *)

\* handleVerifyKYC called whatever the button's state
UncheckedStart ==
    /\ handleVerifyKYC
    /\ UNCHANGED <<files, apiHealth, idCardFile, selfieFile, liveUrls,
                   nextUrl, healthIssued, healthPending, component,
                   revokeCount>>

\* C18: at most one verify request awaits its response at any time; while
\* one does the submit button is not enabled, and that alone excludes a
\* second request: handleVerifyKYC does not test isLoading, and called in
\* that state it would send a second request
C18_OneRequestOutstanding ==
    /\ inFlight <= 1
    /\ inFlight = 1 =>
          /\ ~SubmitEnabled
          /\ ENABLED (UncheckedStart /\ inFlight' = 2)

\* a request is outstanding and the submit button is on screen, disabled
C18_Witness ==
    /\ inFlight = 1
    /\ SubmitRendered
    /\ ~SubmitEnabled

---------------------------------------------------------------------------
(* C19: step, isLoading, result and error agree *)

\* C19: in every reachable state isLoading is true exactly when step is 2
\* or 3, result is set exactly when step is 4, and error is set only when
\* step is 1
C19_StepDeterminesFlags ==
    /\ verification.isLoading <=> verification.step \in {2, 3}
    /\ Truthy(verification.result) <=> verification.step = 4
    /\ Truthy(verification.error) => verification.step = 1

\* the error of a failed attempt is still displayed, at step 1, after the
\* user has removed the ID card
C19_Witness ==
    /\ Truthy(verification.error)
    /\ verification.step = 1
    /\ ~verification.isLoading
    /\ files.idCard = Null
    /\ Truthy(files.selfie)

---------------------------------------------------------------------------
(* C20: overlapping health probes *)

\* the probes whose response has been handled
Completed == healthIssued - Cardinality(healthPending)

HealthKnown == Get(apiHealth, "status") \in {S("healthy"), S("error")}

\* C20: probes overlap, and apiHealth is the outcome of the probe whose
\* response was handled last, whichever probe that is: handling the response
\* of any pending probe, also one issued before a probe already answered,
\* sets apiHealth to its outcome, and no other step changes apiHealth;
\* status is unknown until the first probe completes and never after
C20_LastHandledProbeWins ==
    /\ [](IF Completed = 0
          THEN Get(apiHealth, "status") = S("unknown")
          ELSE HealthKnown)
    /\ [][/\ \A probe \in healthPending, response \in HealthResponses,
               time \in Times :
               HealthSettled(probe, response, time) =>
                  apiHealth' = HealthOutcome(response, time)
          /\ apiHealth' # apiHealth =>
               /\ healthPending' # healthPending
               /\ healthPending' \subseteq healthPending
          /\ HealthKnown => HealthKnown'
         ]_vars

\* the Refresh probe has been answered before the probe of the mount
\* effect, which is still pending
C20_Witness ==
    /\ healthIssued = 2
    /\ healthPending = {1}
    /\ Get(apiHealth, "status") = S("healthy")

===========================================================================
